---- MODULE Spec2Model ----
(***************************************************************************)
(* Model of the task service of src/main.go: five gin handlers over one    *)
(* SQLite table MANAGEMENT.  Texts of the due_date field are sequences of  *)
(* one-character strings, so that time.Parse, Time.Format and the read of  *)
(* the DATE column are computed character by character.                    *)
(***************************************************************************)
EXTENDS Integers, Sequences, FiniteSets, Bags, TLC

\* ------------------------------------------------------------------ bounds
\* Largest number of rows the Create handler inserts in one behaviour.
MaxTasks == 2
\* Number of Update requests that may be in flight at the same time.
NumProcs == 2

\* ------------------------------------------------------------ date texts
DigitChars == <<"0", "1", "2", "3", "4", "5", "6", "7", "8", "9">>

IsDigit(c) == \E i \in 1..10 : DigitChars[i] = c

DigitVal(c) == (CHOOSE i \in 1..10 : DigitChars[i] = c) - 1

\* n written with exactly w decimal digits, zero padded (appendInt of Time.Format).
RECURSIVE Pad(_, _)
Pad(n, w) == IF w = 0 THEN <<>> ELSE Append(Pad(n \div 10, w - 1), DigitChars[(n % 10) + 1])

\* The value of a sequence of digit characters.
RECURSIVE Num(_)
Num(s) == IF s = <<>> THEN 0 ELSE 10 * Num(SubSeq(s, 1, Len(s) - 1)) + DigitVal(s[Len(s)])

IsLeap(y) == (y % 4 = 0) /\ ((y % 100 # 0) \/ (y % 400 = 0))

DaysIn(m, y) ==
    IF m = 2 THEN (IF IsLeap(y) THEN 29 ELSE 28)
    ELSE IF m \in {4, 6, 9, 11} THEN 30 ELSE 31

NoDate == [ok |-> FALSE, y |-> 0, m |-> 0, d |-> 0]

\* time.Parse("2006-01-02", s): four year digits, '-', two month digits, '-',
\* two day digits, nothing after; month in 1..12, day in 1..DaysIn.
ParseDate(s) ==
    IF /\ Len(s) = 10
       /\ \A i \in {1, 2, 3, 4, 6, 7, 9, 10} : IsDigit(s[i])
       /\ s[5] = "-" /\ s[8] = "-"
    THEN LET y == Num(SubSeq(s, 1, 4))
             m == Num(SubSeq(s, 6, 7))
             d == Num(SubSeq(s, 9, 10))
         IN  IF m \in 1..12 /\ d >= 1 /\ d <= DaysIn(m, y)
             THEN [ok |-> TRUE, y |-> y, m |-> m, d |-> d]
             ELSE NoDate
    ELSE NoDate

\* Time.Format with the layout "2006-1-2": month and day not zero padded.
FormatDateUnpadded(t) ==
    LET Dec(n) == IF n < 10 THEN Pad(n, 1) ELSE Pad(n, 2)
    IN  Pad(t.y, 4) \o <<"-">> \o Dec(t.m) \o <<"-">> \o Dec(t.d)

\* Time.Format("2006-01-02").
FormatDate(t) == Pad(t.y, 4) \o <<"-">> \o Pad(t.m, 2) \o <<"-">> \o Pad(t.d, 2)

\* ------------------------------------------------ the store (SQLite table)
\* What the go-sqlite3 driver hands to Scan for the text of a column declared
\* DATE (main.go:39), scanned into the string field DueDate: the driver parses
\* the text as a timestamp (of its layouts the date-only one is the one a
\* text of ten characters can match; the others carry a time of day), falls
\* back to the zero time, and database/sql renders the time.Time into the
\* string as RFC 3339.  The texts of Payloads are no numbers, so the column
\* keeps them as text.
TrimSuffixZ(s) == IF Len(s) > 0 /\ s[Len(s)] = "Z" THEN SubSeq(s, 1, Len(s) - 1) ELSE s

ZeroTime == [ok |-> TRUE, y |-> 1, m |-> 1, d |-> 1]

FormatRFC3339(t) == FormatDate(t) \o <<"T", "0", "0", ":", "0", "0", ":", "0", "0", "Z">>

ReadDateColumn(s) ==
    LET t == ParseDate(TrimSuffixZ(s))
    IN  FormatRFC3339(IF t.ok THEN t ELSE ZeroTime)

\* The Task struct; NoTask is its zero value.
NoTask == [id |-> 0, title |-> "", description |-> "", due_date |-> <<>>, status |-> ""]

MkTask(i, t, de, du, st) ==
    [id |-> i, title |-> t, description |-> de, due_date |-> du, status |-> st]

SetMax(S) == CHOOSE x \in S : \A y \in S : y <= x

\* id INTEGER PRIMARY KEY without AUTOINCREMENT: one more than the largest
\* rowid now in the table.
InsertIdRowidOnly(rs, sq) == SetMax({0} \cup DOMAIN rs) + 1

\* id INTEGER PRIMARY KEY AUTOINCREMENT: one more than the largest rowid the
\* table has ever held (sq is the sqlite_sequence entry of the table).
InsertId(rs, sq) == SetMax({sq} \cup DOMAIN rs) + 1

\* INSERT INTO MANAGEMENT (title, description, due_date, status) VALUES (?, ?, ?, ?)
InsertRow(rs, i, t) ==
    [j \in DOMAIN rs \cup {i} |->
        IF j = i
        THEN [title |-> t.title, description |-> t.description,
              due_date |-> t.due_date, status |-> t.status]
        ELSE rs[j]]

\* SELECT id, title, description, due_date, status ... WHERE id = ?, scanned
\* into a Task.
SelectRow(rs, i) ==
    MkTask(i, rs[i].title, rs[i].description, ReadDateColumn(rs[i].due_date), rs[i].status)

\* INSERT OR REPLACE in place of UPDATE: the row is written whether or not it
\* exists.
UpsertRow(rs, i, t) ==
    [j \in DOMAIN rs \cup {i} |->
        IF j = i
        THEN [title |-> t.title, description |-> t.description,
              due_date |-> t.due_date, status |-> t.status]
        ELSE rs[j]]

\* UPDATE that leaves the status column out of its SET list.
UpdateRowNoStatus(rs, i, t) ==
    [j \in DOMAIN rs |->
        IF j = i
        THEN [title |-> t.title, description |-> t.description,
              due_date |-> t.due_date, status |-> rs[j].status]
        ELSE rs[j]]

\* UPDATE MANAGEMENT SET title = ?, description = ?, due_date = ?, status = ?
\* WHERE id = ?: all four columns of the matching row, no row when none matches.
UpdateRow(rs, i, t) ==
    [j \in DOMAIN rs |->
        IF j = i
        THEN [title |-> t.title, description |-> t.description,
              due_date |-> t.due_date, status |-> t.status]
        ELSE rs[j]]

\* DELETE FROM MANAGEMENT WHERE id = ?
DeleteRow(rs, i) == [j \in DOMAIN rs \ {i} |-> rs[j]]

\* RowsAffected of that DELETE.
RowsAffected(rs, i) == IF i \in DOMAIN rs THEN 1 ELSE 0

\* SELECT ... FROM MANAGEMENT and the rows.Next loop: the rows in rowid order.
RECURSIVE ScanFrom(_, _)
ScanFrom(rs, S) ==
    IF S = {} THEN <<>>
    ELSE LET i == SetMax(S) IN Append(ScanFrom(rs, S \ {i}), SelectRow(rs, i))

SelectAll(rs) == ScanFrom(rs, DOMAIN rs)

\* ---------------------------------------------------------------- inputs
D_2025_03_10 == <<"2", "0", "2", "5", "-", "0", "3", "-", "1", "0">>
D_2024_13_40 == <<"2", "0", "2", "4", "-", "1", "3", "-", "4", "0">>

\* Decoded request bodies, different in every field: one with a valid
\* due_date, one with a due_date that is no calendar date.
Payloads ==
    { MkTask(0, "Buy milk", "2%", D_2025_03_10, "open"),
      MkTask(0, "Pay rent", "", D_2024_13_40, "done") }

\* A request body: one that ShouldBindJSON decodes, or one it rejects.
Malformed == [json |-> "malformed", task |-> NoTask]

Bodies == {[json |-> "ok", task |-> t] : t \in Payloads} \cup {Malformed}

NoBody == [json |-> "none", task |-> NoTask]

\* The :id path parameter.
IdParams == 1..MaxTasks

\* ----------------------------------------------------------------- state
VARIABLES
    rows,      \* the table: id -> [title, description, due_date, status]
    seq,       \* sqlite_sequence: the largest id the table has ever held
    upd,       \* the bag of updateTask invocations in flight
    last,      \* the response the step just taken wrote, with its request
    written,   \* id -> the fields most recently written to the row (history)
    issued,    \* the ids Create has returned, in order (history)
    deleted    \* the ids a Delete has answered 200 for (history)

vars == <<rows, seq, upd, last, written, issued, deleted>>

\* An updateTask invocation between two of its store calls: the statement it
\* runs next, its :id and its decoded body.
InFlight(pc, id, task) == [pc |-> pc, id |-> id, task |-> task]

One(r) == SetToBag({r})

\* c.JSON(code, ...): task is the Task body, tasks the []Task body, msg the
\* gin.H text.  storeErr: a store call of the request failed with an error of
\* the store; noRow: the identifier of the request matched no row.
Response(op, id, req, code, task, tasks, msg, storeErr, noRow) ==
    [op |-> op, id |-> id, req |-> req, code |-> code, task |-> task,
     tasks |-> tasks, msg |-> msg, storeErr |-> storeErr, noRow |-> noRow]

\* No response: the step taken was a store call in the middle of a handler.
NoResponse == Response("none", 0, NoBody, 0, NoTask, <<>>, "", FALSE, FALSE)

Init ==
    /\ rows = <<>>
    /\ seq = 0
    /\ upd = EmptyBag
    /\ last = NoResponse
    /\ written = <<>>
    /\ issued = <<>>
    /\ deleted = {}

\* -------------------------------------------------------------- handlers
\* createTask; fail: db.Exec returns an error.
createTask(body, fail) ==
    LET t == ParseDate(body.task.due_date)
        newTask == [body.task EXCEPT !.due_date = FormatDate(t)]
        taskID == InsertId(rows, seq)
    IN
    IF body.json # "ok" THEN
        /\ last' = Response("create", 0, body, 400, NoTask, <<>>,
                            "Invalid request payload", FALSE, FALSE)
        /\ UNCHANGED <<rows, seq, upd, written, issued, deleted>>
    ELSE IF ~t.ok THEN
        /\ last' = Response("create", 0, body, 400, NoTask, <<>>,
                            "Invalid due_date format", FALSE, FALSE)
        /\ UNCHANGED <<rows, seq, upd, written, issued, deleted>>
    ELSE IF fail THEN
        /\ last' = Response("create", 0, body, 500, NoTask, <<>>,
                            "Failed to create task", TRUE, FALSE)
        /\ UNCHANGED <<rows, seq, upd, written, issued, deleted>>
    ELSE
        /\ seq < MaxTasks
        /\ rows' = InsertRow(rows, taskID, newTask)
        /\ seq' = taskID
        /\ written' = InsertRow(written, taskID, newTask)
        /\ issued' = Append(issued, taskID)
        /\ last' = Response("create", 0, body, 201, [newTask EXCEPT !.id = taskID],
                            <<>>, "", FALSE, FALSE)
        /\ UNCHANGED <<upd, deleted>>

\* retrieveTask; fail: QueryRow(...).Scan returns an error other than
\* sql.ErrNoRows.
retrieveTask(id, fail) ==
    /\ IF fail \/ id \notin DOMAIN rows
       THEN last' = Response("retrieve", id, NoBody, 404, NoTask, <<>>,
                             "Task not found", fail, ~fail)
       ELSE last' = Response("retrieve", id, NoBody, 200, SelectRow(rows, id), <<>>,
                             "", FALSE, FALSE)
    /\ UNCHANGED <<rows, seq, upd, written, issued, deleted>>

\* updateTask up to its first store call: the bind and the existence check.
\* At most NumProcs invocations are past the check at a time.
updateCheck(id, body, fail) ==
    /\ IF body.json # "ok" THEN
           /\ last' = Response("update", id, body, 400, NoTask, <<>>,
                               "Invalid request payload", FALSE, FALSE)
           /\ UNCHANGED upd
       ELSE IF fail \/ id \notin DOMAIN rows THEN
           /\ last' = Response("update", id, body, 404, NoTask, <<>>,
                               "Task not found", fail, ~fail)
           /\ UNCHANGED upd
       ELSE
           /\ BagCardinality(upd) < NumProcs
           /\ upd' = upd (+) One(InFlight("write", id, body.task))
           /\ last' = NoResponse
    /\ UNCHANGED <<rows, seq, written, issued, deleted>>

\* updateTask, second store call: the UPDATE statement.
updateWrite(fail) ==
    \E r \in BagToSet(upd) :
    LET body == [json |-> "ok", task |-> r.task] IN
    /\ r.pc = "write"
    /\ IF fail THEN
           /\ last' = Response("update", r.id, body, 500, NoTask, <<>>,
                               "Failed to update task", TRUE, FALSE)
           /\ upd' = upd (-) One(r)
           /\ UNCHANGED <<rows, written>>
       ELSE
           /\ rows' = UpdateRow(rows, r.id, r.task)
           /\ written' = UpdateRow(written, r.id, r.task)
           /\ upd' = (upd (-) One(r)) (+) One(InFlight("reread", r.id, r.task))
           /\ last' = NoResponse
    /\ UNCHANGED <<seq, issued, deleted>>

\* updateTask, third store call: the re-read of the row and the response.
updateReread(fail) ==
    \E r \in BagToSet(upd) :
    LET body == [json |-> "ok", task |-> r.task] IN
    /\ r.pc = "reread"
    /\ IF fail \/ r.id \notin DOMAIN rows
       THEN last' = Response("update", r.id, body, 500, NoTask, <<>>,
                             "Failed to retrieve updated task details", fail, ~fail)
       ELSE last' = Response("update", r.id, body, 200, SelectRow(rows, r.id), <<>>,
                             "", FALSE, FALSE)
    /\ upd' = upd (-) One(r)
    /\ UNCHANGED <<rows, seq, written, issued, deleted>>

\* deleteTask; fail: db.Exec returns an error.
deleteTask(id, fail) ==
    IF fail THEN
        /\ last' = Response("delete", id, NoBody, 500, NoTask, <<>>,
                            "Failed to delete task", TRUE, FALSE)
        /\ UNCHANGED <<rows, seq, upd, written, issued, deleted>>
    ELSE IF RowsAffected(rows, id) = 0 THEN
        /\ last' = Response("delete", id, NoBody, 404, NoTask, <<>>,
                            "Task not found", FALSE, TRUE)
        /\ UNCHANGED <<rows, seq, upd, written, issued, deleted>>
    ELSE
        /\ rows' = DeleteRow(rows, id)
        /\ written' = DeleteRow(written, id)
        /\ deleted' = deleted \cup {id}
        /\ last' = Response("delete", id, NoBody, 200, NoTask, <<>>,
                            "Task deleted successfully", FALSE, FALSE)
        /\ UNCHANGED <<seq, upd, issued>>

\* listAllTasks; fail: db.Query or rows.Scan returns an error.
listAllTasks(fail) ==
    LET tasks == SelectAll(rows) IN
    /\ IF fail
       THEN last' = Response("list", 0, NoBody, 500, NoTask, <<>>,
                             "Failed to retrieve tasks", TRUE, FALSE)
       ELSE IF Len(tasks) > 0
       THEN last' = Response("list", 0, NoBody, 200, NoTask, tasks, "", FALSE, FALSE)
       ELSE last' = Response("list", 0, NoBody, 200, NoTask, <<>>,
                             "No tasks found", FALSE, FALSE)
    /\ UNCHANGED <<rows, seq, upd, written, issued, deleted>>

\* -------------------------------------------------------- specifications
\* The requests the router dispatches, every store call succeeding.
Next ==
    \/ \E body \in Bodies : createTask(body, FALSE)
    \/ \E id \in IdParams : retrieveTask(id, FALSE)
    \/ \E id \in IdParams, body \in Bodies : updateCheck(id, body, FALSE)
    \/ updateWrite(FALSE)
    \/ updateReread(FALSE)
    \/ \E id \in IdParams : deleteTask(id, FALSE)
    \/ listAllTasks(FALSE)

Spec == Init /\ [][Next]_vars

\* The same requests, each store call failing or not.
NextF ==
    \/ \E body \in Bodies, fail \in BOOLEAN : createTask(body, fail)
    \/ \E id \in IdParams, fail \in BOOLEAN : retrieveTask(id, fail)
    \/ \E id \in IdParams, body \in Bodies, fail \in BOOLEAN :
           updateCheck(id, body, fail)
    \/ \E fail \in BOOLEAN : updateWrite(fail)
    \/ \E fail \in BOOLEAN : updateReread(fail)
    \/ \E id \in IdParams, fail \in BOOLEAN : deleteTask(id, fail)
    \/ \E fail \in BOOLEAN : listAllTasks(fail)

SpecF == Init /\ [][NextF]_vars

\* ------------------------------------------------------------ properties
\* A step in which a handler writes its response.
Responds == last' # NoResponse

\* The four mutable fields of a Task or of a row.
Fields(t) ==
    [title |-> t.title, description |-> t.description,
     due_date |-> t.due_date, status |-> t.status]

\* C1: Retrieve(id) of a task that was created and not deleted responds 200
\* with the requested id and with title, description, due_date and status
\* exactly as most recently written (by the Create or the latest Update).
C1_RetrieveReturnsLastWritten ==
    (last.op = "retrieve" /\ last.id \in DOMAIN written)
        => (/\ last.code = 200
            /\ last.task.id = last.id
            /\ Fields(last.task) = written[last.id])

\* C6: the due_date of every persisted task parses as a YYYY-MM-DD date.
C6_StoredDueDateParses ==
    \A id \in DOMAIN rows : ParseDate(rows[id].due_date).ok

\* C2: a Create whose payload decodes and whose due_date parses responds 201
\* with the input's title, description, due_date and status and with a
\* positive id that no other task of the store has; exactly one row, holding
\* those values, is added.
C2_CreateRoundTrip ==
    [][(/\ Responds
        /\ last'.op = "create"
        /\ last'.req.json = "ok"
        /\ ParseDate(last'.req.task.due_date).ok)
        => (/\ last'.code = 201
            /\ Fields(last'.task) = Fields(last'.req.task)
            /\ last'.task.id > 0
            /\ last'.task.id \notin DOMAIN rows
            /\ DOMAIN rows' = DOMAIN rows \cup {last'.task.id}
            /\ rows'[last'.task.id] = Fields(last'.req.task)
            /\ \A j \in DOMAIN rows : rows'[j] = rows[j])]_vars

\* C2 happens: a second task was created beside an existing one.
C2_Witness ==
    /\ last.op = "create"
    /\ last.code = 201
    /\ Cardinality(DOMAIN rows) = 2
    /\ rows[last.task.id] = Fields(last.req.task)

\* C3: an Update for an id that has no row responds 404, writes nothing and
\* leaves the store without a row for that id, also when a Delete of the id
\* ran while the Update was in flight.
C3_UpdateAbsentIsNotFound ==
    [][(Responds /\ last'.op = "update" /\ last'.noRow)
        => (/\ last'.code = 404
            /\ rows' = rows
            /\ last'.id \notin DOMAIN rows')]_vars

\* C4: Delete of an existing id responds 200 and removes the row; afterwards
\* every Retrieve and every Delete of that id responds 404, and the row never
\* comes back.
C4_DeleteIsFinal ==
    [][/\ (Responds /\ last'.op = "delete" /\ last'.id \in DOMAIN rows)
            => (/\ last'.code = 200
                /\ last'.id \in deleted'
                /\ rows' = DeleteRow(rows, last'.id))
       /\ (Responds /\ last'.op \in {"retrieve", "delete"} /\ last'.id \in deleted)
            => last'.code = 404
       /\ \A id \in deleted : id \notin DOMAIN rows']_vars

\* C4 happens: a Retrieve of a deleted id was answered 404 while the store
\* holds another row.
C4_Witness ==
    /\ last.op = "retrieve"
    /\ last.code = 404
    /\ last.id \in deleted
    /\ DOMAIN rows # {}

\* C5: ListAll answers "No tasks found" exactly when the store holds no row;
\* otherwise it answers a sequence with exactly one entry per row, each equal
\* to its row, and never an empty collection.
C5_ListAllMatchesStore ==
    (last.op = "list")
        => (/\ (last.msg = "No tasks found") <=> (DOMAIN rows = {})
            /\ (DOMAIN rows # {}) =>
                  /\ last.code = 200
                  /\ Len(last.tasks) = Cardinality(DOMAIN rows)
                  /\ \A id \in DOMAIN rows :
                        \E k \in 1..Len(last.tasks) : last.tasks[k].id = id
                  /\ \A k \in 1..Len(last.tasks) :
                        /\ last.tasks[k].id \in DOMAIN rows
                        /\ Fields(last.tasks[k]) = rows[last.tasks[k].id]
            /\ ~(last.msg = "" /\ last.tasks = <<>>))

\* C7: a request in which a store call fails with an error of the store is
\* answered 500, a request whose identifier matches no row is answered 404,
\* and neither is reported as the other.
C7_ErrorTaxonomy ==
    /\ last.storeErr => last.code = 500
    /\ last.noRow => last.code = 404

\* C8: an Update that responds 200 returns its own write: the requested id
\* and the title, description, due_date and status of its own payload.
C8_UpdateReturnsOwnWrite ==
    (last.op = "update" /\ last.code = 200)
        => (/\ last.task.id = last.id
            /\ Fields(last.task) = Fields(last.req.task))

\* The step in which the in-flight Update r executes its UPDATE statement.
WriteStep(r) ==
    /\ r.pc = "write"
    /\ upd' = (upd (-) One(r)) (+) One(InFlight("reread", r.id, r.task))

\* The step in which the in-flight Update r is answered.
AnswerStep(r) == Responds /\ upd' = upd (-) One(r)

\* C9: of concurrent Updates of one existing id, none is answered with an
\* error while the row exists, and the row is the whole payload of the Update
\* whose write ran last: each write leaves all four fields of its own
\* payload, and nothing but a write changes a row that stays.
C9_LastWriterWins ==
    [][/\ \A r \in BagToSet(upd) :
            /\ (WriteStep(r) /\ r.id \in DOMAIN rows)
                  => rows'[r.id] = Fields(r.task)
            /\ (AnswerStep(r) /\ r.id \in DOMAIN rows)
                  => (/\ last'.code = 200
                      /\ last'.id = r.id
                      /\ last'.req.task = r.task)
       /\ \A id \in DOMAIN rows \cap DOMAIN rows' :
            rows'[id] # rows[id]
                => \E r \in BagToSet(upd) : WriteStep(r) /\ r.id = id]_vars

\* C9 happens: two Updates of one id with different payloads ran together;
\* one has been answered 200 with the row the other wrote, and the other is
\* still to re-read.
C9_Witness ==
    \E r \in BagToSet(upd) :
        /\ r.pc = "reread"
        /\ last.op = "update"
        /\ last.code = 200
        /\ last.id = r.id
        /\ last.req.task # r.task
        /\ Fields(last.task) # Fields(last.req.task)
        /\ last.task.title = r.task.title
        /\ r.id \in DOMAIN rows
        /\ rows[r.id] = Fields(r.task)

\* C10: the ids Create assigns are strictly increasing, also after deletes
\* (of the highest id too), and the id of a deleted task designates no row.
C10_IdsNeverReused ==
    /\ \A i, j \in 1..Len(issued) : i < j => issued[i] < issued[j]
    /\ \A id \in deleted : id \notin DOMAIN rows

\* C10 happens: a Create ran after the task with the highest id was deleted.
C10_Witness ==
    /\ last.op = "create"
    /\ last.code = 201
    /\ Len(issued) >= 2
    /\ \A k \in 1..(Len(issued) - 1) : issued[k] \in deleted
    /\ DOMAIN rows = {last.task.id}

====
